---- MODULE Spec2Model ----
(***************************************************************************)
(* Model of the size-targeting controller of Restricted-WebM               *)
(* (src/restrict.py): FileInfo's bitrate allocation, FileConverter's       *)
(* SHRINK (limit_size) / GROW (raise_size) state machine, the best-size    *)
(* bookkeeping of update_size and the batch loop of main().  The bitrate   *)
(* functions (RateSpec) and the frame rate / height selection of           *)
(* update_filters (FilterSpec) are also run on their own, next to their    *)
(* older counterparts of src/utils (video_bitrate, downscale_height,       *)
(* drop_framerate).  LongSpec runs the controller with one more iteration  *)
(* per mode, IntSpec adds KeyboardInterrupt, BestSpec replays sequences    *)
(* of sizes through update_size, AudioSpec runs the audio allocation of    *)
(* FileInfo.audio_properties and ConvSpec the older controller of          *)
(* src/utils/convert.py (convert_file, limiter, enhancer).                 *)
(*                                                                         *)
(* Sizes are bytes, bitrates Kbps, durations milliseconds.  Python's       *)
(* int(x) on a float is modelled by Trunc over the exact quotient; the     *)
(* explored sizes and audio bitrates are such that no quotient of          *)
(* update_video_bitrate is an integer that double rounding could miss.     *)
(***************************************************************************)
EXTENDS Integers, Sequences, FiniteSets, TLC

\* ------------------------------------------------------------------ bounds
\* largest value of opts.iters (-i/--iterations) that is explored
MaxIters == 2
\* number of input files of the batch (opts.files)
NumFiles == 2
\* largest attempt number of a mode explored when the bitrate functions are
\* run on their own
MaxCalls == 3
\* largest number of sizes in a sequence replayed through update_size
MaxLen == 3
\* utils: the largest --iterations explored for convert_file
MaxUtilsIters == 1

\* ------------------------------------------------------- input domains
\* opts.max_size values explored (int(limit*1024**2))
MaxSizeChoices == {1000}
\* opts.under values explored, in percent
UnderChoices == {0, 75, 100}
\* byte sizes the encoder's output (or the debug prompt) can have
SizeChoices == {0, 700, 750, 998, 1000, 1005, 1500}
\* FileInfo.a_rate values (total audio bitrate of the input's streams):
\* no audio, one channel at 32 Kbps, two channels at 40 Kbps
ARateChoices == {0, 32, 80}
\* FileInfo.out_dur values, in milliseconds
OutDurChoices == {100}
\* video stream of the batch's inputs (video_properties): 200x250 at 25 fps
VideoChoices == {[in_height |-> 250, in_width |-> 200, in_fps |-> 25]}
\* a 3 MiB limit (-s 3) for a 10 s clip, next to the small limit above
MiB == 1048576
RateMaxSizeChoices == MaxSizeChoices \cup {3 * MiB}
RateOutDur(max_size) == IF max_size = 3 * MiB THEN 10000 ELSE 100
\* measured sizes that go with each limit
RateSizeChoices(max_size) ==
    IF max_size = 3 * MiB THEN {2 * MiB, 3 * MiB, 3200000, 4 * MiB}
    ELSE SizeChoices \ {0}
\* bitrates an earlier attempt can have had
RateChoices == 1..12 \cup {20, 100, 2516}
\* video streams explored when the filter functions are run on their own:
\* 320x200, 392x245, 360x270, 640x480 and 600x250, at 20, 25, 30 and 60 fps
FilterVideoChoices ==
    { [in_height |-> hw[1], in_width |-> hw[2], in_fps |-> f] :
        hw \in { <<200, 320>>, <<245, 392>>, <<270, 360>>, <<480, 640>>,
                 <<250, 600>> },
        f \in {20, 25, 30, 60} }
\* video bitrates explored for them
FilterRateChoices == {1, 20, 80, 120, 200, 400, 1000, 2000}

\* --------------------------------------------------- program constants
fallback_bitrate == 1
\* min_bitrate_ratio = 0.9 as a fraction
min_bitrate_ratio_num == 9
min_bitrate_ratio_den == 10
\* skip_limit = 0.01 as a fraction 1/skip_limit_den
skip_limit_den == 100
\* ExitCodes
SIZE == 4
INT == 5
\* no sys.exit has been called
NotExited == -1
QMAX == 1
VBR == 2
CBR == 3
\* bpp_thresh = 0.075 as a fraction
bpp_thresh_num == 3
bpp_thresh_den == 40
height_reduction == -10
fps_list == << 60, 30, 25, 24, 22, 20, 18, 16, 14, 12, 10, 8, 6, 4, 2, 1 >>
\* DefaultOptions: min_height, min_fps; max_height = max_fps = None is 0
min_height_default == 240
min_fps_default == 24
None == 0

\* --max-height and --max-fps values explored (None: not given)
MaxHeightChoices == {None, 240, 260}
MaxFpsChoices == {None, 24, 30}

\* ------------------------------------------------------------- state
VARIABLES
    opts,        \* parsed command line (global opts), fixed after start-up
    pc,          \* position of the main script / of FileConverter.process
    file,        \* index of the current input in opts.files (0: none yet)
    info,        \* FileInfo of the current input: valid, a_rate, out_dur
    v_rate,      \* FileInfo.v_rate
    curr_size,   \* FileConverter.curr_size
    last_size,   \* FileConverter.last_size
    best_size,   \* FileConverter.best_size
    mode,        \* FileConverter.mode
    i,           \* loop variable of limit_size / raise_size
    temp,        \* file at video.info.temp
    output,      \* file at video.info.output
    size_fail,   \* global size_fail
    error,       \* uncaught exception that ended the program, or "none"
    outcome,     \* what process reported for the current input
    n_attempts,  \* encode attempts (call_ffmpeg) made for the current input
    att,         \* the latest encode attempt: phase, mode, i, rate
    best_att,    \* the encode attempt whose size is recorded in best_size
    shrink_end,  \* best_size/mode when limit_size returned, for the input
    filter,      \* ConvertibleFile.filter: the -vf option of the command
    exit_status, \* argument of the sys.exit that ended the program
    sizes        \* sizes replayed when update_size is run on its own

vars == << opts, pc, file, info, v_rate, curr_size, last_size, best_size,
           mode, i, temp, output, size_fail, error, outcome, n_attempts,
           att, best_att, shrink_end, filter, exit_status, sizes >>

\* ----------------------------------------------------------- helpers
\* int() of the exact quotient n/d (d > 0): truncation toward zero
Trunc(n, d) == IF n >= 0 THEN n \div d ELSE -((-n) \div d)

Abs(x) == IF x < 0 THEN -x ELSE x

NoFile == [att |-> 0, size |-> 0]
NoAttempt == [phase |-> "none", mode |-> 0, i |-> 0, rate |-> 0]
NoShrinkEnd == [best |-> -1, mode |-> 0, att_mode |-> 0]
\* self.filter = []: no -vf option; scale/fps 0: that filter is absent
NoFilter == [scale |-> 0, fps |-> 0]
NoInfo == [valid |-> FALSE, a_rate |-> 0, out_dur |-> 100, in_height |-> 0,
           in_width |-> 0, in_fps |-> 0, out_height |-> 0, out_fps |-> 0]

\* FileInfo.__init__: the FileInfo of a probed input
NewInfo(valid, a, d, v) ==
    [valid |-> valid, a_rate |-> a, out_dur |-> d,
     in_height |-> v.in_height, in_width |-> v.in_width, in_fps |-> v.in_fps,
     out_height |-> v.in_height, out_fps |-> v.in_fps]

\* args.min_size = int(limit*1024**2*under)
min_size == (opts.max_size * opts.under) \div 100

\* FileConverter.__init__: first and last bitrate mode to use
min_mode == IF opts.no_qmax THEN VBR ELSE QMAX
max_mode == IF opts.no_cbr THEN VBR ELSE CBR

\* FileInfo.init_video_bitrate
init_video_bitrate(inf) ==
    LET bitrate == Trunc(opts.max_size * 8 - inf.a_rate * inf.out_dur,
                         inf.out_dur)
    IN  IF bitrate <= 0 THEN fallback_bitrate ELSE bitrate

\* greatest common divisor of two positive integers
RECURSIVE GCD(_, _)
GCD(a, b) == IF b = 0 THEN a ELSE GCD(b, a % b)

\* the size ratio opts.max_size/size as a fraction in lowest terms (size > 0)
ratio_num(size) == opts.max_size \div GCD(opts.max_size, size)
ratio_den(size) == size \div GCD(opts.max_size, size)

\* a_offset with the sign of the audio term turned: (1 - max_size/size)
a_offset_Negated(size, a_rate) ==
    Trunc((ratio_den(size) - ratio_num(size)) * a_rate, ratio_den(size))

\* update_video_bitrate: a_offset = int((max_size/size - 1) * a_rate)
a_offset(size, a_rate) ==
    Trunc((ratio_num(size) - ratio_den(size)) * a_rate, ratio_den(size))

\* NewRate without the audio term
NewRate_NoAudio(rate, size, a_rate) ==
    Trunc(rate * ratio_num(size), ratio_den(size))

\* update_video_bitrate: new_rate = int(v_rate * max_size/size + a_offset)
NewRate(rate, size, a_rate) ==
    Trunc(rate * ratio_num(size) + a_offset(size, a_rate) * ratio_den(size),
          ratio_den(size))

\* min_rate with a ratio of 0.95
min_rate_Weaker(rate) == (rate * 19) \div 20

\* update_video_bitrate: min_rate = int(v_rate * min_bitrate_ratio)
min_rate(rate) ==
    (rate * min_bitrate_ratio_num) \div min_bitrate_ratio_den

\* ForcedDecrease that never replaces the proportional update
ForcedDecrease_Never(rate, new) == FALSE

\* ForcedDecrease read as a floor: an update below min_rate is replaced
ForcedDecrease_Floor(rate, new) == new < min_rate(rate)

\* ForcedDecrease that also replaces an update equal to min_rate or v_rate
ForcedDecrease_Inclusive(rate, new) == min_rate(rate) <= new /\ new <= rate

\* update_video_bitrate: the test "min_rate < new_rate < self.v_rate"
ForcedDecrease(rate, new) == min_rate(rate) < new /\ new < rate

\* Fallback that lets a computed bitrate of 0 or less through
Fallback_None(bitrate) == bitrate

\* the floor "if bitrate <= 0: bitrate = opts.fallback_bitrate"
Fallback(bitrate) == IF bitrate <= 0 THEN fallback_bitrate ELSE bitrate

\* FileInfo.update_video_bitrate (size # 0; size = 0 raises in the caller)
update_video_bitrate(rate, size, a_rate) ==
    LET new_rate == NewRate(rate, size, a_rate)
        bitrate  == IF ForcedDecrease(rate, new_rate)
                    THEN min_rate(rate) ELSE new_rate
    IN  Fallback(bitrate)


\* ------------------------------------------------------ update_filters
\* the aspect ratio w/h of video_properties as a fraction in lowest terms
AspectNum(inf) == inf.in_width \div GCD(inf.in_width, inf.in_height)
AspectDen(inf) == inf.in_height \div GCD(inf.in_width, inf.in_height)

\* rate*1000 / (fps*ratio*h**2) >= tn/td for ratio = an/ad (fps > 0, h # 0)
BppAtLeast(an, ad, rate, fps, h, tn, td) ==
    rate * 1000 * ad * td >= tn * fps * an * h * h

\* RaiseToMin that leaves a value below the min. threshold alone
RaiseToMin_None(x, min) == x

\* "if x < opts.min_...: x = opts.min_..."
RaiseToMin(x, min) == IF x < min THEN min ELSE x

\* "if opts.max_... and x > opts.max_...: x = opts.max_..."
CapToMax(x, max) == IF max # None /\ x > max THEN max ELSE x

\* CapToInput that lets a value above the input's through
CapToInput_None(x, in) == x

\* "if x > self.in_...: x = self.in_..."
CapToInput(x, in) == IF x > in THEN in ELSE x

\* Enforce that compares with the input's value before the thresholds
Enforce_InputFirst(x, min, max, in) ==
    CapToMax(RaiseToMin(CapToInput(x, in), min), max)

\* update_filters: "Enforce ... thresholds", in the code's order
Enforce(x, min, max, in) == CapToInput(CapToMax(RaiseToMin(x, min), max), in)

\* update_filters: possible_fps[0], the first frame rate of fps_list from
\* position k on whose bpp at the input's height reaches bpp_thresh / 2;
\* [opts.min_fps][0] if there is none
RECURSIVE possible_fps(_, _, _, _, _)
possible_fps(an, ad, in_height, rate, k) ==
    IF k > Len(fps_list) THEN opts.min_fps
    ELSE IF BppAtLeast(an, ad, rate, fps_list[k], in_height, bpp_thresh_num,
                       2 * bpp_thresh_den)
    THEN fps_list[k]
    ELSE possible_fps(an, ad, in_height, rate, k + 1)

\* update_filters: possible_heights[0], the first height of
\* range(h, 0, opts.height_reduction) whose bpp at the frame rate out_fps
\* reaches bpp_thresh; [opts.min_height][0] if there is none
RECURSIVE possible_heights(_, _, _, _, _)
possible_heights(an, ad, rate, out_fps, h) ==
    IF h <= 0 THEN opts.min_height
    ELSE IF BppAtLeast(an, ad, rate, out_fps, h, bpp_thresh_num,
                       bpp_thresh_den)
    THEN h
    ELSE possible_heights(an, ad, rate, out_fps, h + height_reduction)

\* the first entries of the two lists for a FileInfo
FirstFps(inf, rate) ==
    possible_fps(AspectNum(inf), AspectDen(inf), inf.in_height, rate, 1)

\* FirstHeight over a range that leaves out the input's own height
FirstHeight_BelowInput(inf, rate, out_fps) ==
    possible_heights(AspectNum(inf), AspectDen(inf), rate, out_fps,
                     inf.in_height + height_reduction)

FirstHeight(inf, rate, out_fps) ==
    possible_heights(AspectNum(inf), AspectDen(inf), rate, out_fps,
                     inf.in_height)

\* update_filters without its tests of opts.user_scale / opts.user_fps
update_filters_Unforced(inf, rate) ==
    LET fps == Enforce(FirstFps(inf, rate),
                       opts.min_fps, opts.max_fps, inf.in_fps)
        height == Enforce(FirstHeight(inf, rate, fps),
                          opts.min_height, opts.max_height, inf.in_height)
    IN  [inf EXCEPT !.out_fps = fps, !.out_height = height]

\* FileInfo.update_filters for the video bitrate rate: the FileInfo after it
update_filters(inf, rate) ==
    IF opts.user_scale /\ opts.user_fps THEN inf
    ELSE LET fps == IF ~opts.user_fps
                    THEN Enforce(FirstFps(inf, rate),
                                 opts.min_fps, opts.max_fps, inf.in_fps)
                    ELSE inf.out_fps
             height == IF ~opts.user_scale
                       THEN Enforce(FirstHeight(inf, rate, fps),
                                    opts.min_height, opts.max_height,
                                    inf.in_height)
                       ELSE inf.out_height
         IN  [inf EXCEPT !.out_fps = fps, !.out_height = height]

\* ConvertibleFile.update_filters_flags: self.filter after the call, for
\* the FileInfo inf and the earlier self.filter flt
update_filters_flags(inf, flt) ==
    IF inf.out_height < inf.in_height /\ inf.out_fps < inf.in_fps
    THEN [scale |-> inf.out_height, fps |-> inf.out_fps]
    ELSE IF inf.out_height < inf.in_height
    THEN [scale |-> inf.out_height, fps |-> 0]
    ELSE IF inf.out_fps < inf.in_fps
    THEN [scale |-> 0, fps |-> inf.out_fps]
    ELSE flt

\* IsBest with the "best try too large" test dropped from its second case
IsBest_AnySmaller(best, curr) ==
    \/ best = 0
    \/ curr < best
    \/ (best < curr /\ curr <= opts.max_size /\ best < opts.max_size)

\* IsBest with the upper limit dropped from its third case
IsBest_AnyLarger(best, curr) ==
    \/ best = 0
    \/ (curr < best /\ best > opts.max_size)
    \/ (best < curr /\ best < opts.max_size)

\* the acceptance test of FileConverter.update_size
IsBest(best, curr) ==
    \/ best = 0
    \/ (curr < best /\ best > opts.max_size)
    \/ (best < curr /\ curr <= opts.max_size /\ best < opts.max_size)

\* skip_mode without abs(): any decrease of the size counts as no change
skip_mode_Signed(curr, last) == (curr - last) * skip_limit_den < last

\* FileConverter.skip_mode (last # 0; last = 0 raises in the caller)
skip_mode(curr, last) == Abs(curr - last) * skip_limit_den < last

\* SkipTested without the guard: skip_mode is called after every attempt
SkipTested_Always(k) == TRUE

\* limit_size: "i > 1 and self.skip_mode()" calls skip_mode for i > 1 only
SkipTested(k) == k > 1

\* InRange with a strict lower limit
InRange_Strict(best) == min_size < best /\ best <= opts.max_size

\* raise_size: "opts.min_size <= self.best_size <= opts.max_size"
InRange(best) == min_size <= best /\ best <= opts.max_size

\* MoreIters with an off-by-one range end
MoreIters_OneMore(k) == k <= opts.iters

\* range(1, opts.iters+1): is there another iteration after iteration k
MoreIters(k) == k < opts.iters

\* LimitRate that seeds the bitrate for the first mode only
LimitRate_SeedOnce(k) ==
    IF k = 1 /\ mode = min_mode THEN init_video_bitrate(info)
    ELSE update_video_bitrate(v_rate, curr_size, info.a_rate)

\* bitrate of attempt k of a mode in limit_size
LimitRate(k) ==
    IF k = 1 THEN init_video_bitrate(info)
    ELSE update_video_bitrate(v_rate, curr_size, info.a_rate)

\* TooLarge with a non-strict comparison
TooLarge_OrEqual == best_size >= opts.max_size

\* LargeEnough with a strict comparison
LargeEnough_Strict == best_size > min_size

\* process: the tests after limit_size and after raise_size
TooLarge == best_size > opts.max_size
LargeEnough == best_size >= min_size
TooSmall == best_size < min_size

\* ------------------------------------------------------------- Init
Init ==
    /\ opts \in [no_qmax : BOOLEAN, no_cbr : BOOLEAN, iters : 1..MaxIters,
                 debug : BOOLEAN, max_size : MaxSizeChoices,
                 under : UnderChoices,
                 user_scale : {FALSE}, user_fps : {FALSE},
                 min_height : {min_height_default}, max_height : {None},
                 min_fps : {min_fps_default}, max_fps : {None}]
    /\ pc = "main"
    /\ file = 0
    /\ info = NoInfo
    /\ v_rate = 0
    /\ curr_size = 0
    /\ last_size = 0
    /\ best_size = 0
    /\ mode = min_mode
    /\ i = 0
    /\ temp = NoFile
    /\ output = NoFile
    /\ size_fail = FALSE
    /\ error = "none"
    /\ outcome = "none"
    /\ n_attempts = 0
    /\ att = NoAttempt
    /\ best_att = NoAttempt
    /\ shrink_end = NoShrinkEnd
    /\ filter = NoFilter
    /\ exit_status = NotExited
    /\ sizes = << >>

\* ----------------------------------------------------------- actions
\* the state an uncaught exception leaves when it is raised before the
\* encoder's output was measured: main's finally runs clean(video), then the
\* exception ends the program.  attempted: call_ffmpeg had been called for
\* attempt a.
Crash(exc, attempted, a) ==
    /\ pc' = "crashed"
    /\ error' = exc
    /\ temp' = NoFile
    /\ n_attempts' = IF attempted THEN n_attempts + 1 ELSE n_attempts
    /\ att' = IF attempted THEN a ELSE att
    /\ v_rate' = IF attempted THEN a.rate ELSE v_rate
    \* update_size saves last_size before os.path.getsize raises
    /\ last_size' = IF attempted THEN curr_size ELSE last_size
    /\ info' = IF attempted THEN update_filters(info, a.rate) ELSE info
    /\ filter' = IF attempted
                 THEN update_filters_flags(update_filters(info, a.rate),
                                           filter)
                 ELSE filter
    /\ UNCHANGED << opts, file, curr_size, best_size, mode, i, output,
                    size_fail, outcome, best_att, shrink_end, exit_status,
                    sizes >>

\* call_ffmpeg: the file at the temp path after the encoder ran; wrote is
\* FALSE when the encoder failed without writing its output (in debug mode
\* nothing is executed)
TempAfterEncode(wrote, s) ==
    IF wrote THEN [att |-> n_attempts + 1, size |-> s] ELSE temp

\* update_size: the size read for the attempt (debug: the size typed in)
MeasuredSize(wrote, s) ==
    IF opts.debug THEN s ELSE TempAfterEncode(wrote, s).size

\* update_size that renames the temp file over the output file on every
\* attempt, accepted or not
update_size_AlwaysReplace(wrote, s, a) ==
    LET curr == MeasuredSize(wrote, s)
        accept == IsBest(best_size, curr)
    IN  /\ last_size' = curr_size
        /\ curr_size' = curr
        /\ best_size' = IF accept THEN curr ELSE best_size
        /\ best_att' = IF accept THEN a ELSE best_att
        /\ output' = IF ~opts.debug
                      THEN TempAfterEncode(wrote, s) ELSE output

\* update_size: the assignments to curr_size, last_size, best_size and the
\* os.replace of the temp file over the output file
update_size(wrote, s, a) ==
    LET curr == MeasuredSize(wrote, s)
        accept == IsBest(best_size, curr)
    IN  /\ last_size' = curr_size
        /\ curr_size' = curr
        /\ best_size' = IF accept THEN curr ELSE best_size
        /\ best_att' = IF accept THEN a ELSE best_att
        /\ output' = IF accept /\ ~opts.debug
                      THEN TempAfterEncode(wrote, s) ELSE output

\* the temp path after update_size
TempAfterUpdate(wrote, s) ==
    IF IsBest(best_size, MeasuredSize(wrote, s)) /\ ~opts.debug
    THEN NoFile ELSE TempAfterEncode(wrote, s)

\* what the encoder can do in one call: (wrote, s)
EncodeChoices ==
    IF opts.debug THEN {<<FALSE, s>> : s \in SizeChoices}
    ELSE {<<TRUE, s>> : s \in SizeChoices} \cup {<<FALSE, 0>>}

\* limit_size: one pass of the for loop body (one encode attempt of the
\* SHRINK phase) and the control flow up to the next attempt or the return
limit_size ==
    /\ pc = "limit_size"
    /\ IF i > 1 /\ curr_size = 0
       THEN Crash("ZeroDivisionError", FALSE, att)
       ELSE LET a == [phase |-> "SHRINK", mode |-> mode, i |-> i,
                      rate |-> LimitRate(i)]
            IN
            \* video.info.update_filters(), called once per attempt
            \E filtered \in {update_filters(info, a.rate)} :
            \E c \in EncodeChoices :
            LET wrote == c[1]
                s == c[2]
                curr == MeasuredSize(wrote, s)
                best == IF IsBest(best_size, curr) THEN curr ELSE best_size
                next_mode == mode + 1
            IN  IF ~opts.debug /\ TempAfterEncode(wrote, s) = NoFile
                THEN Crash("FileNotFoundError", TRUE, a)
                ELSE
                /\ update_size(wrote, s, a)
                /\ v_rate' = a.rate
                /\ att' = a
                /\ n_attempts' = n_attempts + 1
                /\ error' = error
                /\ temp' = TempAfterUpdate(wrote, s)
                \* skip_mode's divisor last_size is the size that
                \* update_video_bitrate divided by above, so it is not 0
                /\ IF SkipTested(i) /\ skip_mode(curr, curr_size)
                   THEN \* break; self.mode += 1
                        /\ mode' = next_mode
                        /\ i' = 1
                        /\ pc' = IF next_mode <= max_mode
                                  THEN "limit_size" ELSE "after_limit"
                   ELSE IF best <= opts.max_size
                   THEN \* return
                        /\ pc' = "after_limit"
                        /\ UNCHANGED << mode, i >>
                   ELSE IF MoreIters(i)
                   THEN /\ i' = i + 1
                        /\ pc' = "limit_size"
                        /\ mode' = mode
                   ELSE \* the for loop is exhausted; self.mode += 1
                        /\ mode' = next_mode
                        /\ i' = 1
                        /\ pc' = IF next_mode <= max_mode
                                  THEN "limit_size" ELSE "after_limit"
                /\ info' = filtered
                /\ filter' = update_filters_flags(filtered, filter)
                /\ UNCHANGED << opts, file, size_fail, outcome, shrink_end,
                                exit_status, sizes >>

\* process: the tests between limit_size and raise_size
process_after_limit ==
    /\ pc = "after_limit"
    /\ shrink_end' = [best |-> best_size, mode |-> mode,
                      att_mode |-> att.mode]
    /\ IF TooLarge
       THEN \* Still too large
            /\ size_fail' = TRUE
            /\ outcome' = "too_large"
            /\ pc' = "returned"
            /\ i' = i
       ELSE IF LargeEnough
       THEN /\ outcome' = "fits"
            /\ pc' = "returned"
            /\ UNCHANGED << size_fail, i >>
       ELSE /\ pc' = "raise_size"
            /\ i' = 1
            /\ UNCHANGED << size_fail, outcome >>
    /\ UNCHANGED << filter, exit_status, sizes >>
    /\ UNCHANGED << opts, file, info, v_rate, curr_size, last_size,
                    best_size, mode, temp, output, error, n_attempts, att,
                    best_att >>

\* raise_size: one pass of the for loop body (one encode attempt of the
\* GROW phase) and the control flow up to the next attempt or the return
raise_size ==
    /\ pc = "raise_size"
    /\ IF curr_size = 0
       THEN Crash("ZeroDivisionError", FALSE, att)
       ELSE LET a == [phase |-> "GROW", mode |-> mode, i |-> i,
                      rate |-> update_video_bitrate(v_rate, curr_size,
                                                    info.a_rate)]
            IN
            \* video.info.update_filters(), called once per attempt
            \E filtered \in {update_filters(info, a.rate)} :
            \E c \in EncodeChoices :
            LET wrote == c[1]
                s == c[2]
                curr == MeasuredSize(wrote, s)
                best == IF IsBest(best_size, curr) THEN curr ELSE best_size
            IN  IF ~opts.debug /\ TempAfterEncode(wrote, s) = NoFile
                THEN Crash("FileNotFoundError", TRUE, a)
                ELSE
                /\ update_size(wrote, s, a)
                /\ v_rate' = a.rate
                /\ att' = a
                /\ n_attempts' = n_attempts + 1
                /\ error' = error
                /\ temp' = TempAfterUpdate(wrote, s)
                /\ mode' = mode
                /\ IF skip_mode(curr, curr_size)
                   THEN /\ pc' = "after_raise"
                        /\ i' = i
                   ELSE IF InRange(best)
                   THEN /\ pc' = "after_raise"
                        /\ i' = i
                   ELSE IF MoreIters(i)
                   THEN /\ pc' = "raise_size"
                        /\ i' = i + 1
                   ELSE /\ pc' = "after_raise"
                        /\ i' = i
                /\ info' = filtered
                /\ filter' = update_filters_flags(filtered, filter)
                /\ UNCHANGED << opts, file, size_fail, outcome, shrink_end,
                                exit_status, sizes >>

\* process: the test after raise_size
process_after_raise ==
    /\ pc = "after_raise"
    /\ IF TooSmall
       THEN \* Still too small
            /\ size_fail' = TRUE
            /\ outcome' = "too_small"
       ELSE /\ outcome' = "fits"
            /\ size_fail' = size_fail
    /\ pc' = "returned"
    /\ UNCHANGED << filter, exit_status, sizes >>
    /\ UNCHANGED << opts, file, info, v_rate, curr_size, last_size,
                    best_size, mode, i, temp, output, error, n_attempts,
                    att, best_att, shrink_end >>

\* reset that leaves the mode tracker where the last input ended
reset_KeepMode ==
    /\ pc = "returned"
    /\ curr_size' = 0
    /\ best_size' = 0
    /\ last_size' = 0
    /\ temp' = NoFile
    /\ pc' = "main"
    /\ UNCHANGED << opts, file, info, v_rate, mode, i, output, size_fail,
                    error, outcome, n_attempts, att, best_att, shrink_end,
                    filter, exit_status, sizes >>

\* main: restrictor.reset() and clean(video) after process returned
reset ==
    /\ pc = "returned"
    /\ curr_size' = 0
    /\ best_size' = 0
    /\ last_size' = 0
    /\ mode' = min_mode
    /\ temp' = NoFile
    /\ pc' = "main"
    /\ UNCHANGED << filter, exit_status, sizes >>
    /\ UNCHANGED << opts, file, info, v_rate, i, output, size_fail, error,
                    outcome, n_attempts, att, best_att, shrink_end >>

\* main: one pass of the for loop up to restrictor.process, for a valid
\* input; an invalid input is cleaned and skipped
NextFile ==
    /\ pc = "main"
    /\ file < NumFiles
    /\ file' = file + 1
    /\ \E valid \in BOOLEAN, a \in ARateChoices, d \in OutDurChoices,
          v \in VideoChoices :
          LET inf == IF valid THEN NewInfo(valid, a, d, v)
                     ELSE [NoInfo EXCEPT !.out_dur = d] IN
          /\ info' = inf
          /\ IF valid
             THEN /\ pc' = "limit_size"
                  /\ v_rate' = init_video_bitrate(inf)
                  /\ i' = 1
             ELSE /\ pc' = "main"
                  /\ UNCHANGED << v_rate, i >>
    /\ temp' = NoFile
    /\ output' = NoFile
    /\ outcome' = "none"
    /\ n_attempts' = 0
    /\ att' = NoAttempt
    /\ best_att' = NoAttempt
    /\ shrink_end' = NoShrinkEnd
    /\ filter' = NoFilter
    /\ UNCHANGED << exit_status, sizes >>
    /\ UNCHANGED << opts, curr_size, last_size, best_size, mode, size_fail,
                    error >>

\* Finish that looks at the last input only
Finish_LastOnly ==
    /\ pc = "main"
    /\ file = NumFiles
    /\ pc' = "exit"
    /\ exit_status' = IF outcome \in {"too_large", "too_small"}
                      THEN SIZE ELSE 0
    /\ UNCHANGED << opts, file, info, v_rate, curr_size, last_size,
                    best_size, mode, i, temp, output, size_fail, error,
                    outcome, n_attempts, att, best_att, shrink_end, filter,
                    sizes >>

\* __main__: the batch is over, exit with SIZE (4) or 0
Finish ==
    /\ pc = "main"
    /\ file = NumFiles
    /\ pc' = "exit"
    /\ exit_status' = IF size_fail THEN SIZE ELSE 0
    /\ UNCHANGED << filter, sizes >>
    /\ UNCHANGED << opts, file, info, v_rate, curr_size, last_size,
                    best_size, mode, i, temp, output, size_fail, error,
                    outcome, n_attempts, att, best_att, shrink_end >>

Next ==
    \/ NextFile
    \/ limit_size
    \/ process_after_limit
    \/ raise_size
    \/ process_after_raise
    \/ reset
    \/ Finish

Spec == Init /\ [][Next]_vars

\* the same program started with -i MaxIters+1 in debug mode (-d), so that
\* a mode has iterations left after its second attempt
InitLong ==
    /\ opts \in [no_qmax : {FALSE}, no_cbr : BOOLEAN,
                 iters : {MaxIters + 1}, debug : {TRUE},
                 max_size : MaxSizeChoices, under : {75},
                 user_scale : {FALSE}, user_fps : {FALSE},
                 min_height : {min_height_default}, max_height : {None},
                 min_fps : {min_fps_default}, max_fps : {None}]
    /\ pc = "main"
    /\ file = 0
    /\ info = NoInfo
    /\ v_rate = 0
    /\ curr_size = 0
    /\ last_size = 0
    /\ best_size = 0
    /\ mode = min_mode
    /\ i = 0
    /\ temp = NoFile
    /\ output = NoFile
    /\ size_fail = FALSE
    /\ error = "none"
    /\ outcome = "none"
    /\ n_attempts = 0
    /\ att = NoAttempt
    /\ best_att = NoAttempt
    /\ shrink_end = NoShrinkEnd
    /\ filter = NoFilter
    /\ exit_status = NotExited
    /\ sizes = << >>

LongSpec == InitLong /\ [][Next]_vars

\* --------------------------------------------------- KeyboardInterrupt
\* clean that leaves the file at the temp path where it is
clean_Skipped(tmp) == tmp

\* clean(video): the file at the temp path afterwards
clean(tmp) == NoFile

\* Ctrl+C while main() runs: KeyboardInterrupt is raised at the point the
\* program has reached.  Inside the try block of main (process, reset) the
\* finally clause runs clean(video) first; __main__ catches the exception
\* and calls sys.exit(status.INT).  An interrupt that arrives inside an
\* encode attempt leaves the same files as one that arrives before it: the
\* output path is written by os.replace only, and what the encoder wrote to
\* the temp path is removed by clean.
Interrupt ==
    /\ pc \in {"main", "limit_size", "after_limit", "raise_size",
               "after_raise", "returned"}
    /\ pc' = "interrupted"
    /\ error' = "KeyboardInterrupt"
    /\ temp' = IF pc = "main" THEN temp ELSE clean(temp)
    /\ exit_status' = INT
    /\ UNCHANGED << opts, file, info, v_rate, curr_size, last_size,
                    best_size, mode, i, output, size_fail, outcome,
                    n_attempts, att, best_att, shrink_end, filter,
                    sizes >>

\* runs that start in mode 1 with an undershoot ratio of 0.75, with Ctrl+C
InitInt ==
    /\ Init
    /\ ~opts.no_qmax
    /\ opts.under = 75

NextInt ==
    \/ Next
    \/ Interrupt

IntSpec == InitInt /\ [][NextInt]_vars

\* ------------------------------------------------- update_size alone
\* a FileConverter in the state reset() leaves, in debug mode, and a
\* sequence of positive sizes that will be measured (typed in), twice over
InitBest ==
    /\ opts \in [no_qmax : {FALSE}, no_cbr : {FALSE}, iters : {MaxLen},
                 debug : {TRUE}, max_size : MaxSizeChoices,
                 under : {75},
                 user_scale : {FALSE}, user_fps : {FALSE},
                 min_height : {min_height_default}, max_height : {None},
                 min_fps : {min_fps_default}, max_fps : {None}]
    /\ pc = "update_size"
    /\ sizes \in UNION {[1..n -> SizeChoices \ {0}] : n \in 1..MaxLen}
    /\ file = 1
    /\ info = NoInfo
    /\ v_rate = 0
    /\ curr_size = 0
    /\ last_size = 0
    /\ best_size = 0
    /\ mode = min_mode
    /\ i = 1
    /\ temp = NoFile
    /\ output = NoFile
    /\ size_fail = FALSE
    /\ error = "none"
    /\ outcome = "none"
    /\ n_attempts = 0
    /\ att = NoAttempt
    /\ best_att = NoAttempt
    /\ shrink_end = NoShrinkEnd
    /\ filter = NoFilter
    /\ exit_status = NotExited

\* self.update_size(video) for the next size of the sequence; after the
\* last size the sequence starts again
update_size_call ==
    /\ pc = "update_size"
    /\ n_attempts < 2 * Len(sizes)
    /\ LET a == [phase |-> "REPLAY", mode |-> mode, i |-> i,
                 rate |-> v_rate]
       IN  /\ update_size(FALSE, sizes[i], a)
           /\ att' = a
    /\ n_attempts' = n_attempts + 1
    /\ i' = IF i = Len(sizes) THEN 1 ELSE i + 1
    /\ UNCHANGED << opts, pc, file, info, v_rate, mode, temp, size_fail,
                    error, outcome, shrink_end, filter, exit_status, sizes >>

NextBest == update_size_call

BestSpec == InitBest /\ [][NextBest]_vars

\* ------------------------------------------- the bitrate functions alone
\* src/utils/video.py video_bitrate(args, in_file, last, out_size, attempt),
\* with args.size*1024**2 = opts.max_size and the audio bitrate sum a_rate.
\* attempt 0: args.size*8*1000/out_dur - a_bitrate, where
\* args.size*8*1000/out_dur = max_size*15625 / (2048*out_dur[ms])
video_bitrate(last, out_size, attempt) ==
    LET g   == GCD(opts.max_size, 2048 * info.out_dur)
        n0  == (opts.max_size \div g) * 15625 - info.a_rate
                 * ((2048 * info.out_dur) \div g)
        d0  == (2048 * info.out_dur) \div g
        n   == last * ratio_num(out_size)
        d   == ratio_den(out_size)
        \* -0.1 < (bitrate-last)/last < 0
        small == 10 * n > 9 * last * d /\ n < last * d
    IN  IF attempt = 0
        THEN IF n0 <= d0 THEN 1 ELSE n0 \div d0
        ELSE IF small
        THEN IF 9 * last <= 10 THEN 1 ELSE (9 * last) \div 10
        ELSE IF n <= d THEN 1 ELSE n \div d

\* a FileInfo (restrict.py) or an in_file (utils) whose latest attempt ran
\* at some bitrate and measured some size; k is the number of the attempt
\* whose bitrate is computed next
InitRate ==
    /\ opts \in [no_qmax : {FALSE}, no_cbr : {FALSE}, iters : {MaxCalls},
                 debug : {TRUE}, max_size : RateMaxSizeChoices,
                 under : {75},
                 user_scale : {FALSE}, user_fps : {FALSE},
                 min_height : {min_height_default}, max_height : {None},
                 min_fps : {min_fps_default}, max_fps : {None}]
    /\ pc \in {"rate", "u_rate"}
    /\ file = 1
    /\ info \in {NewInfo(TRUE, a, RateOutDur(opts.max_size), v) :
                    a \in ARateChoices, v \in VideoChoices}
    /\ i \in 1..2
    /\ v_rate \in RateChoices
    /\ att = [phase |-> "RATE", mode |-> VBR, i |-> i - 1, rate |-> v_rate]
    /\ curr_size \in RateSizeChoices(opts.max_size)
    /\ last_size = 0
    /\ best_size = 0
    /\ mode = VBR
    /\ temp = NoFile
    /\ output = NoFile
    /\ size_fail = FALSE
    /\ error = "none"
    /\ outcome = "none"
    /\ n_attempts = 0
    /\ best_att = NoAttempt
    /\ shrink_end = NoShrinkEnd
    /\ filter = NoFilter
    /\ exit_status = NotExited
    /\ sizes = << >>

\* limit_size's bitrate step: init_video_bitrate for attempt 1,
\* update_video_bitrate(curr_size) for a later attempt
rate_call ==
    /\ pc = "rate"
    /\ v_rate' = LimitRate(i)
    /\ pc' = "rate_set"
    /\ UNCHANGED << filter, exit_status, sizes >>
    /\ UNCHANGED << opts, file, info, curr_size, last_size, best_size, mode,
                    i, temp, output, size_fail, error, outcome, n_attempts,
                    att, best_att, shrink_end >>

\* limiter's bitrate step (utils): video_bitrate with the last bitrate and
\* the last size, attempt counted from 0
u_rate_call ==
    /\ pc = "u_rate"
    /\ v_rate' = video_bitrate(att.rate, curr_size, i - 1)
    /\ pc' = "u_rate_set"
    /\ UNCHANGED << filter, exit_status, sizes >>
    /\ UNCHANGED << opts, file, info, curr_size, last_size, best_size, mode,
                    i, temp, output, size_fail, error, outcome, n_attempts,
                    att, best_att, shrink_end >>

\* the attempt is encoded at the bitrate just computed and its size measured
rate_measure ==
    /\ pc \in {"rate_set", "u_rate_set"}
    /\ i < MaxCalls
    /\ \E s \in RateSizeChoices(opts.max_size) :
          /\ curr_size' = s
          /\ last_size' = curr_size
    /\ att' = [phase |-> "RATE", mode |-> VBR, i |-> i, rate |-> v_rate]
    /\ i' = i + 1
    /\ n_attempts' = n_attempts + 1
    /\ pc' = IF pc = "rate_set" THEN "rate" ELSE "u_rate"
    /\ UNCHANGED << filter, exit_status, sizes >>
    /\ UNCHANGED << opts, file, info, v_rate, best_size, mode, temp, output,
                    size_fail, error, outcome, best_att, shrink_end >>

NextRate ==
    \/ rate_call
    \/ u_rate_call
    \/ rate_measure

RateSpec == InitRate /\ [][NextRate]_vars

\* -------------------------------------------- the filter functions alone
\* utils: --max-height / --max-fps default to 9999 (parse.py)
UtilsMax(max) == IF max = None THEN 9999 ELSE max

\* outcomes of utils downscale_height other than a height
Raises == -1
Loops == -2

\* utils downscale_height: the while loop from out_height = h on.  bpp at
\* h = 0 divides by zero; below 0 the bpp only falls as the loop goes on
RECURSIVE ScanHeight(_, _, _, _, _)
ScanHeight(an, ad, bitrate, fps, h) ==
    IF h = 0 THEN Raises
    ELSE IF BppAtLeast(an, ad, bitrate, fps, h, bpp_thresh_num,
                       bpp_thresh_den) THEN h
    ELSE IF h < 0 THEN Loops
    ELSE ScanHeight(an, ad, bitrate, fps, h - 10)

\* src/utils/video.py downscale_height(args, v_prop, bitrate, fps, stage)
downscale_height(inf, bitrate, fps, stage) ==
    LET min_height == opts.min_height * stage
        max_height == UtilsMax(opts.max_height)
        out_height == ScanHeight(AspectNum(inf), AspectDen(inf), bitrate,
                                 fps, inf.in_height)
    IN  IF opts.user_scale THEN inf.in_height
        ELSE IF inf.in_height < min_height THEN inf.in_height
        ELSE IF out_height \in {Raises, Loops} THEN out_height
        ELSE IF out_height < min_height THEN min_height
        ELSE IF out_height > max_height THEN max_height
        ELSE out_height

\* utils drop_framerate: the for loop over fps_list from position k on
RECURSIVE ScanFps(_, _, _, _, _, _)
ScanFps(an, ad, bitrate, height, list, k) ==
    IF k = Len(list) \/ BppAtLeast(an, ad, bitrate, list[k], height,
                                   bpp_thresh_num, bpp_thresh_den)
    THEN list[k]
    ELSE ScanFps(an, ad, bitrate, height, list, k + 1)

\* src/utils/video.py drop_framerate(args, v_prop, bitrate, height)
drop_framerate(inf, bitrate, height) ==
    LET list == << inf.in_fps, 60, 30, 24, 22, 20, 18, 16, 14, 12, 10, 8, 6,
                   4, 2, 1 >>
        out_fps == ScanFps(AspectNum(inf), AspectDen(inf), bitrate, height,
                           list, 1)
    IN  IF opts.user_fps THEN inf.in_fps
        ELSE IF inf.in_fps < opts.min_fps THEN inf.in_fps
        ELSE IF out_fps > UtilsMax(opts.max_fps) THEN UtilsMax(opts.max_fps)
        ELSE IF out_fps < opts.min_fps THEN opts.min_fps
        ELSE out_fps

\* utils limiter / enhancer: "for stage in range(2, 0, -1)", as the pair
\* << height, fps >>, or << Raises >>, << Loops >>
TwoStages(inf, bitrate) ==
    LET h2 == downscale_height(inf, bitrate, inf.in_fps, 2)
        f2 == drop_framerate(inf, bitrate, h2)
        h1 == downscale_height(inf, bitrate, f2, 1)
        f1 == drop_framerate(inf, bitrate, h1)
    IN  IF h2 \in {Raises, Loops} THEN << h2 >>
        ELSE IF h1 \in {Raises, Loops} THEN << h1 >>
        ELSE << h1, f1 >>

\* a probed input and the options, with the bitrate of the next attempt
InitFilter ==
    /\ opts \in [no_qmax : {FALSE}, no_cbr : {FALSE}, iters : {MaxCalls},
                 debug : {TRUE}, max_size : MaxSizeChoices, under : {75},
                 user_scale : BOOLEAN, user_fps : BOOLEAN,
                 min_height : {min_height_default},
                 max_height : MaxHeightChoices,
                 min_fps : {min_fps_default}, max_fps : MaxFpsChoices]
    /\ pc \in {"filters", "u_filters"}
    /\ file = 1
    /\ info \in {NewInfo(TRUE, 0, 100, v) : v \in FilterVideoChoices}
    /\ i = 1
    /\ v_rate \in FilterRateChoices
    /\ att = NoAttempt
    /\ curr_size = 0
    /\ last_size = 0
    /\ best_size = 0
    /\ mode = VBR
    /\ temp = NoFile
    /\ output = NoFile
    /\ size_fail = FALSE
    /\ error = "none"
    /\ outcome = "none"
    /\ n_attempts = 0
    /\ best_att = NoAttempt
    /\ shrink_end = NoShrinkEnd
    /\ filter = NoFilter
    /\ exit_status = NotExited
    /\ sizes = << >>

\* limit_size / raise_size: video.info.update_filters()
filters_call ==
    /\ pc = "filters"
    /\ info' = update_filters(info, v_rate)
    /\ pc' = "filters_set"
    /\ UNCHANGED << filter, exit_status, sizes >>
    /\ UNCHANGED << opts, file, v_rate, curr_size, last_size, best_size,
                    mode, i, temp, output, size_fail, error, outcome,
                    n_attempts, att, best_att, shrink_end >>

\* utils limiter / enhancer: the two stages of downscale_height and
\* drop_framerate; a division by zero ends the program, a height search
\* that cannot succeed never returns
u_filters_call ==
    /\ pc = "u_filters"
    /\ LET r == TwoStages(info, v_rate)
       IN  IF r = << Raises >>
           THEN /\ pc' = "crashed"
                /\ error' = "ZeroDivisionError"
                /\ info' = info
           ELSE IF r = << Loops >>
           THEN /\ pc' = "u_looping"
                /\ UNCHANGED << error, info >>
           ELSE /\ pc' = "u_filters_set"
                /\ info' = [info EXCEPT !.out_height = r[1], !.out_fps = r[2]]
                /\ error' = error
    /\ UNCHANGED << filter, exit_status, sizes >>
    /\ UNCHANGED << opts, file, v_rate, curr_size, last_size, best_size,
                    mode, i, temp, output, size_fail, outcome, n_attempts,
                    att, best_att, shrink_end >>

\* the next attempt's bitrate
filters_rate ==
    /\ pc \in {"filters_set", "u_filters_set"}
    /\ i < MaxCalls
    /\ v_rate' \in FilterRateChoices
    /\ i' = i + 1
    /\ pc' = IF pc = "filters_set" THEN "filters" ELSE "u_filters"
    /\ UNCHANGED << filter, exit_status, sizes >>
    /\ UNCHANGED << opts, file, info, curr_size, last_size, best_size, mode,
                    temp, output, size_fail, error, outcome, n_attempts, att,
                    best_att, shrink_end >>

NextFilter ==
    \/ filters_call
    \/ u_filters_call
    \/ filters_rate

FilterSpec == InitFilter /\ [][NextFilter]_vars

\* ------------------------------------------------ the audio allocation alone
\* opts.a_factor = 5.5
a_factor_num == 11
a_factor_den == 2
min_audio_default == 24
top_audio_bitrate == 96

\* the audio streams ffprobe reports, each by its channel count (none: a
\* silent input)
StreamChoices == {<< >>, << 1 >>, << 2 >>, << 1, 2 >>, << 2, 6 >>}
\* --min-audio / --max-audio values explored (None: no --max-audio)
MinAudioChoices == {6, min_audio_default, 100}
MaxAudioChoices == {None, 6, 32, 100}

\* choose_audio_bitrate: the if/elif ladder, << factor below, bitrate >>
audio_ladder ==
    << << 1, 6 >>, << 2, 8 >>, << 3, 12 >>, << 4, 16 >>, << 6, 24 >>,
       << 8, 32 >>, << 28, 48 >>, << 72, 64 >>, << 120, 80 >> >>

\* the first rung from rung k on that the factor fn/fd is below
RECURSIVE ladder_bitrate(_, _, _)
ladder_bitrate(fn, fd, k) ==
    IF k > Len(audio_ladder) THEN top_audio_bitrate
    ELSE IF fn < audio_ladder[k][1] * fd THEN audio_ladder[k][2]
    ELSE ladder_bitrate(fn, fd, k + 1)

\* choose_audio_bitrate(factor) for factor = fn/fd
choose_audio_bitrate(fn, fd) ==
    LET bitrate == ladder_bitrate(fn, fd, 1)
        raised == IF bitrate < opts.min_audio THEN opts.min_audio
                  ELSE bitrate
    IN  IF opts.max_audio # None /\ raised > opts.max_audio
        THEN opts.max_audio
        ELSE raised

RECURSIVE SeqSum(_)
SeqSum(q) == IF q = << >> THEN 0 ELSE Head(q) + SeqSum(Tail(q))

\* audio_properties: c_list, the channels of the streams that are encoded
c_list(streams) ==
    LET all == [k \in 1..Len(streams) |->
                   IF opts.force_stereo THEN 2 ELSE streams[k]]
    IN  IF opts.basic_format /\ Len(all) > 1 THEN SubSeq(all, 1, 1) ELSE all

\* audio_properties: factor = max_size*8 / (out_dur*channels*4*1000)
\* / a_factor as the ratio << numerator, denominator >>, out_dur in ms
audio_factor(out_dur, channels) ==
    << opts.max_size * 2 * a_factor_den, out_dur * channels * a_factor_num >>

\* FileInfo.audio_properties: << bitrate, b_list >>, or << Raises >> when
\* the factor divides by zero
audio_properties(streams, out_dur) ==
    IF ~opts.audio THEN << 0, << >> >>
    ELSE LET cl == c_list(streams)
             channels == SeqSum(cl)
             factor == audio_factor(out_dur, channels)
         IN  IF factor[2] = 0 THEN << Raises >>
             ELSE LET c_rate == choose_audio_bitrate(factor[1], factor[2])
                      b_list == [k \in 1..Len(cl) |-> cl[k] * c_rate]
                  IN  << SeqSum(b_list), b_list >>

\* a probed input up to FileInfo.__init__'s audio_properties call, and the
\* options that pass additional_checks
InitAudio ==
    /\ opts \in {o \in [no_qmax : {FALSE}, no_cbr : {FALSE},
                        iters : {MaxIters}, debug : {TRUE},
                        max_size : RateMaxSizeChoices, under : {75},
                        audio : BOOLEAN, force_stereo : BOOLEAN,
                        basic_format : BOOLEAN,
                        min_audio : MinAudioChoices,
                        max_audio : MaxAudioChoices] :
                    o.max_audio # None => o.max_audio >= o.min_audio}
    /\ pc = "audio"
    /\ file = 1
    /\ info \in {[valid |-> TRUE, out_dur |-> RateOutDur(opts.max_size),
                  a_streams |-> st, a_rate |-> 0, a_list |-> << >>] :
                    st \in StreamChoices}
    /\ i = 1
    /\ v_rate = 0
    /\ att = NoAttempt
    /\ curr_size = 0
    /\ last_size = 0
    /\ best_size = 0
    /\ mode = VBR
    /\ temp = NoFile
    /\ output = NoFile
    /\ size_fail = FALSE
    /\ error = "none"
    /\ outcome = "none"
    /\ n_attempts = 0
    /\ best_att = NoAttempt
    /\ shrink_end = NoShrinkEnd
    /\ filter = NoFilter
    /\ exit_status = NotExited
    /\ sizes = << >>

\* FileInfo.__init__: self.a_rate, self.a_list, self.a_sample =
\* self.audio_properties(a_streams); a ZeroDivisionError ends the program
audio_call ==
    /\ pc = "audio"
    /\ LET r == audio_properties(info.a_streams, info.out_dur)
       IN  IF r = << Raises >>
           THEN /\ pc' = "crashed"
                /\ error' = "ZeroDivisionError"
                /\ info' = info
           ELSE /\ pc' = "audio_set"
                /\ info' = [info EXCEPT !.a_rate = r[1], !.a_list = r[2]]
                /\ error' = error
    /\ UNCHANGED << filter, exit_status, sizes >>
    /\ UNCHANGED << opts, file, v_rate, curr_size, last_size, best_size,
                    mode, i, temp, output, size_fail, outcome, n_attempts,
                    att, best_att, shrink_end >>

NextAudio == audio_call

AudioSpec == InitAudio /\ [][NextAudio]_vars

\* ------------------------------------------------- the utils controller
\* src/utils/convert.py convert_file, limiter and enhancer for one input, the
\* encoder really run (args.debug false): out_path holds what limiter's
\* latest encode wrote, temp_path what enhancer's latest encode wrote.
\* mode: limiter's loop variable, then in_file.mode; i: the loop variable
\* attempt; v_rate, curr_size: the last entries of bitrate_list and
\* size_list; best_size, best_att: in_file.best_size, in_file.mode and
\* in_file.best_bitrate; size_fail: in_file.internal_error.
\* args.upper_limit is opts.max_size and args.lower_limit is min_size.

\* video_settings: mode 0 adds -qmax 50; limiter: "for mode in range(0, 3)"
u_qmax == 0
u_modes == 3
\* limiter / enhancer: abs(diff) <= 0.02, in percent
u_skip_percent == 2

\* sizes an encode can produce
UtilsSizeChoices == {0, 600, 650, 700, 800, 1005, 1500}

\* limiter / enhancer: diff = (size-last_size) / last_size; abs(diff) <= 0.02
SmallDiff(size, last) == Abs(size - last) * 100 <= u_skip_percent * last

\* enhancer's loop bound with one attempt more
enhancer_iterations_More == opts.iters * 2 + 2
\* enhancer: iterations = args.iterations*2 + 1, for "range(1, iterations)"
enhancer_iterations == opts.iters * 2 + 1

\* limiter / enhancer: webm["filter"] after the attempt, for the height and
\* frame rate hf = << height, fps >>; it is assigned only when a filter is
\* needed
u_filter(inf, hf, flt) ==
    LET scale_filter == hf[1] # inf.in_height
        fps_filter == hf[2] # inf.in_fps
    IN  IF scale_filter \/ fps_filter
        THEN [scale |-> IF scale_filter THEN hf[1] ELSE 0,
              fps |-> IF fps_filter THEN hf[2] ELSE 0]
        ELSE flt

\* what the encoder can do in one call: write a file of some size at the
\* path, or write nothing
u_EncodeChoices == {<< TRUE, s >> : s \in UtilsSizeChoices} \cup {<< FALSE, 0 >>}

\* the file at a path after ffmpeg() was told to write there
u_Encoded(old, c) ==
    IF c[1] THEN [att |-> n_attempts + 1, size |-> c[2]] ELSE old

\* an exception that nothing catches leaves limiter or enhancer
u_Raise(exc) ==
    /\ pc' = "crashed"
    /\ error' = exc
    /\ UNCHANGED << v_rate, curr_size, last_size, best_size, mode, i, temp,
                    output, n_attempts, att, best_att, filter, info >>

InitConv ==
    /\ opts \in [no_qmax : BOOLEAN, no_cbr : {FALSE},
                 iters : 1..MaxUtilsIters,
                 debug : {FALSE}, max_size : MaxSizeChoices, under : {75},
                 user_scale : {FALSE}, user_fps : {FALSE},
                 min_height : {min_height_default}, max_height : {None},
                 min_fps : {min_fps_default}, max_fps : {None}]
    /\ pc = "limiter"
    /\ file = 1
    /\ info \in {NewInfo(TRUE, a, d, v) :
                    a \in {0, 32}, d \in OutDurChoices, v \in VideoChoices}
    /\ v_rate = 0
    /\ curr_size = 0
    /\ last_size = 0
    /\ best_size = 0
    /\ mode = 0
    /\ i = 0
    /\ temp = NoFile
    /\ output = NoFile
    /\ size_fail = FALSE
    /\ error = "none"
    /\ outcome = "none"
    /\ n_attempts = 0
    /\ att = NoAttempt
    /\ best_att = NoAttempt
    /\ shrink_end = NoShrinkEnd
    /\ filter = NoFilter
    /\ exit_status = NotExited
    /\ sizes = << >>

\* limiter: one pass of the inner for loop body (one encode to out_path)
\* and the control flow up to the next attempt or the return
limiter ==
    /\ pc = "limiter"
    /\ LET bitrate == video_bitrate(v_rate, curr_size, i)
           a == [phase |-> "LIMIT", mode |-> mode, i |-> i, rate |-> bitrate]
           hf == TwoStages(info, bitrate)
       IN  IF hf = << Raises >> THEN u_Raise("ZeroDivisionError")
           ELSE IF hf = << Loops >>
           THEN /\ pc' = "u_looping"
                /\ UNCHANGED << v_rate, curr_size, last_size, best_size,
                                mode, i, temp, output, n_attempts, att,
                                best_att, filter, info, error >>
           ELSE
           \E c \in u_EncodeChoices :
           LET written == u_Encoded(output, c)
               size == written.size
               next_mode == /\ mode' = mode + 1
                            /\ i' = 0
                            /\ pc' = IF mode + 1 < u_modes THEN "limiter"
                                      ELSE "after_limiter"
           IN  /\ n_attempts' = n_attempts + 1
               /\ att' = a
               /\ v_rate' = bitrate
               /\ filter' = u_filter(info, hf, filter)
               /\ info' = [info EXCEPT !.out_height = hf[1],
                                       !.out_fps = hf[2]]
               /\ output' = written
               /\ temp' = temp
               /\ IF written = NoFile
                  THEN \* output_size: int() of ffprobe's empty answer
                       /\ pc' = "crashed"
                       /\ error' = "ValueError"
                       /\ UNCHANGED << curr_size, last_size, best_size,
                                       best_att, mode, i >>
                  ELSE
                  /\ error' = error
                  /\ curr_size' = size
                  /\ last_size' = IF i > 0 THEN curr_size ELSE last_size
                  /\ IF size <= opts.max_size
                     THEN \* return
                          /\ best_size' = size
                          /\ best_att' = a
                          /\ pc' = "after_limiter"
                          /\ UNCHANGED << mode, i >>
                     ELSE /\ UNCHANGED << best_size, best_att >>
                          /\ IF i > 0 /\ SmallDiff(size, curr_size)
                             THEN next_mode
                             ELSE IF i + 1 < opts.iters
                             THEN /\ i' = i + 1
                                  /\ pc' = "limiter"
                                  /\ mode' = mode
                             ELSE next_mode
    /\ UNCHANGED << opts, file, size_fail, outcome, shrink_end, exit_status,
                    sizes >>

\* convert_file after limiter: "too big", or enhancer when the output is
\* below the lower limit
after_limiter ==
    /\ pc = "after_limiter"
    /\ IF output.size > opts.max_size
       THEN /\ size_fail' = TRUE
            /\ outcome' = "too big"
            /\ pc' = "after_enhancer"
            /\ UNCHANGED << mode, i, v_rate, curr_size >>
       ELSE IF output.size < min_size
       THEN \* enhancer: mode = in_file.mode; bitrate_list =
            \* [in_file.best_bitrate]; size_list = [in_file.best_size]
            /\ mode' = best_att.mode
            /\ v_rate' = best_att.rate
            /\ curr_size' = best_size
            /\ i' = 1
            /\ pc' = IF 1 < enhancer_iterations THEN "enhancer"
                      ELSE "after_enhancer"
            /\ UNCHANGED << size_fail, outcome >>
       ELSE /\ pc' = "after_enhancer"
            /\ UNCHANGED << mode, i, v_rate, curr_size, size_fail, outcome >>
    /\ UNCHANGED << opts, file, info, last_size, best_size, temp, output,
                    error, n_attempts, att, best_att, shrink_end, filter,
                    exit_status, sizes >>

\* enhancer: one pass of the for loop body (one encode to temp_path) and
\* the control flow up to the next attempt or the return
enhancer ==
    /\ pc = "enhancer"
    /\ IF curr_size = 0
       THEN \* video_bitrate: last * (args.size*1024**2 / out_size)
            u_Raise("ZeroDivisionError")
       ELSE
       LET bitrate == video_bitrate(v_rate, curr_size, i)
           a == [phase |-> "ENHANCE", mode |-> mode, i |-> i,
                 rate |-> bitrate]
           hf == TwoStages(info, bitrate)
       IN  IF hf = << Raises >> THEN u_Raise("ZeroDivisionError")
           ELSE IF hf = << Loops >>
           THEN /\ pc' = "u_looping"
                /\ UNCHANGED << v_rate, curr_size, last_size, best_size,
                                mode, i, temp, output, n_attempts, att,
                                best_att, filter, info, error >>
           ELSE
           \E c \in u_EncodeChoices :
           LET written == u_Encoded(temp, c)
               size == written.size
               better == best_size < size /\ size <= opts.max_size
           IN  /\ n_attempts' = n_attempts + 1
               /\ att' = a
               /\ v_rate' = bitrate
               /\ filter' = u_filter(info, hf, filter)
               /\ info' = [info EXCEPT !.out_height = hf[1],
                                       !.out_fps = hf[2]]
               /\ UNCHANGED << best_size, best_att, mode >>
               /\ IF written = NoFile
                  THEN /\ pc' = "crashed"
                       /\ error' = "ValueError"
                       /\ UNCHANGED << curr_size, last_size, i, temp, output >>
                  ELSE
                  /\ error' = error
                  /\ curr_size' = size
                  /\ last_size' = curr_size
                  \* replace(temp_path, out_path)
                  /\ output' = IF better THEN written ELSE output
                  /\ temp' = IF better THEN NoFile ELSE written
                  /\ IF min_size <= size /\ size <= opts.max_size
                     THEN \* return
                          /\ pc' = "after_enhancer"
                          /\ i' = i
                     ELSE IF i > 1 /\ SmallDiff(size, curr_size)
                     THEN \* break
                          /\ pc' = "after_enhancer"
                          /\ i' = i
                     ELSE IF i + 1 < enhancer_iterations
                     THEN /\ i' = i + 1
                          /\ pc' = "enhancer"
                     ELSE /\ pc' = "after_enhancer"
                          /\ i' = i
    /\ UNCHANGED << opts, file, size_fail, outcome, shrink_end, exit_status,
                    sizes >>

\* convert_file's last test: "too small"
after_enhancer ==
    /\ pc = "after_enhancer"
    /\ IF output.size < min_size
       THEN /\ size_fail' = TRUE
            /\ outcome' = "too small"
       ELSE UNCHANGED << size_fail, outcome >>
    /\ pc' = "converted"
    /\ UNCHANGED << opts, file, info, v_rate, curr_size, last_size,
                    best_size, mode, i, temp, output, error, n_attempts, att,
                    best_att, shrink_end, filter, exit_status, sizes >>

NextConv ==
    \/ limiter
    \/ after_limiter
    \/ enhancer
    \/ after_enhancer

ConvSpec == InitConv /\ [][NextConv]_vars

\* ================================================================ claims
\* an encode attempt was made and update_size ran to its end in this step
Measured == n_attempts' = n_attempts + 1 /\ pc' # "crashed"

\* the bitrate seed int(max_size*8/(out_dur*1000) - a_rate), fallback 1
SeedBitrate ==
    LET b == Trunc(opts.max_size * 8 - info.a_rate * info.out_dur,
                   info.out_dur)
    IN  IF b <= 0 THEN 1 ELSE b

\* C1: once an attempt of limit_size leaves best_size <= max_size, no
\* further SHRINK encode attempt is started, also when the skip-threshold
\* check is true on that same attempt.
C1_NoShrinkAttemptAfterFit ==
    ~(pc = "limit_size" /\ n_attempts > 0 /\ best_size <= opts.max_size)

\* the three cases in which a new size becomes the best one
AcceptCase(best, new) ==
    \/ best = 0
    \/ (best > opts.max_size /\ new < best)
    \/ (best <= opts.max_size /\ new <= opts.max_size /\ new > best)

\* C2: update_size replaces best_size with the new attempt's size (and, when
\* the encoder is really run, renames the temp file over the output file)
\* exactly when (a) there is no best yet, or (b) best_size > max_size and the
\* new size < best_size, or (c) best_size <= max_size and the new size <=
\* max_size and the new size > best_size; otherwise best_size and the output
\* file are unchanged.  Debug mode executes no file operation at all.
C2_UpdateSizeRule ==
    [][Measured =>
         IF AcceptCase(best_size, curr_size')
         THEN /\ best_size' = curr_size'
              /\ IF opts.debug THEN output' = output /\ output = NoFile
                 ELSE /\ output' = [att |-> n_attempts', size |-> curr_size']
                      /\ temp' = NoFile
         ELSE /\ best_size' = best_size
              /\ output' = output]_vars

\* C2 witness: in a real run a fitting best file was replaced by a larger
\* fitting attempt, and a later attempt was turned down
C2_Witness ==
    /\ ~opts.debug
    /\ att.phase = "GROW"
    /\ att.i = 2
    /\ best_att.phase = "GROW"
    /\ best_att.i = 1
    /\ output.size = best_size
    /\ curr_size # best_size

\* C3: during GROW an attempt becomes the new best only if its size is
\* strictly larger than the current best_size and <= max_size; any other
\* GROW attempt changes neither best_size nor the output file.
C3_GrowAcceptsOnlyLargerFitting ==
    [][(Measured /\ att'.phase = "GROW") =>
         IF curr_size' > best_size /\ curr_size' <= opts.max_size
         THEN best_size' = curr_size' /\ best_att' = att'
         ELSE best_size' = best_size /\ output' = output
              /\ best_att' = best_att]_vars

\* C3 witness: a GROW attempt above max_size was turned down
C3_Witness ==
    /\ att.phase = "GROW"
    /\ pc \in {"raise_size", "after_raise"}
    /\ curr_size > opts.max_size
    /\ best_size < curr_size
    /\ best_att.phase = "SHRINK"

\* C4: process makes at most 3*iters + iters encode attempts for one input:
\* at most iters per mode in limit_size and at most iters in raise_size.
C4_AttemptBound ==
    /\ n_attempts <= 3 * opts.iters + opts.iters
    /\ att.i <= opts.iters
    /\ (att.phase = "SHRINK" =>
          n_attempts <= (max_mode - min_mode + 1) * opts.iters)

\* C4 witness: the bound is reached
C4_Witness ==
    /\ n_attempts = 3 * opts.iters + opts.iters
    /\ opts.iters > 1
    /\ pc = "returned"

\* C5: the input is reported still too large (size_fail set) iff best_size >
\* max_size when SHRINK ends; still too small (size_fail set) iff GROW ran and
\* best_size < min_size when GROW ends; a return without a report means
\* min_size <= best_size <= max_size.
C5_Outcome ==
    pc = "returned" =>
      /\ (outcome = "too_large") = (shrink_end.best > opts.max_size)
      /\ (outcome = "too_small") = (att.phase = "GROW" /\ best_size < min_size)
      /\ (outcome \in {"too_large", "too_small"} => size_fail)
      /\ (outcome \notin {"too_large", "too_small"} =>
            min_size <= best_size /\ best_size <= opts.max_size)
      /\ (att.phase = "SHRINK" => best_size = shrink_end.best)

\* C5 witness: an input reported still too small after GROW
C5_Witness ==
    /\ pc = "returned"
    /\ outcome = "too_small"
    /\ att.phase = "GROW"
    /\ best_size > 0

\* C6: raise_size is entered only if SHRINK ended with best_size < min_size
\* and best_size <= max_size; no GROW attempt is made otherwise.
C6_GrowOnlyIfTooSmall ==
    (pc = "raise_size" \/ att.phase = "GROW") =>
      /\ shrink_end.best >= 0
      /\ shrink_end.best < min_size
      /\ shrink_end.best <= opts.max_size

\* C6 witness: GROW attempts were made for an input
C6_Witness ==
    /\ att.phase = "GROW"
    /\ att.i > 1
    /\ shrink_end.best > 0

\* C7: every encode attempt, in SHRINK and in GROW, runs in an enabled
\* bitrate mode: min_mode <= mode <= max_mode.
C7_EnabledMode ==
    att.phase # "none" => min_mode <= att.mode /\ att.mode <= max_mode

\* C8: every GROW attempt uses the mode of the final encode attempt of SHRINK.
C8_GrowInLastShrinkMode ==
    /\ (pc = "raise_size" => mode = shrink_end.att_mode)
    /\ (att.phase = "GROW" => att.mode = shrink_end.att_mode)

\* C9: the bitrate of the first GROW attempt is computed from the bitrate and
\* the measured size of the attempt recorded as the best candidate.
C9_GrowSeedsFromBest ==
    [][(n_attempts' = n_attempts + 1 /\ att'.phase = "GROW" /\ att'.i = 1) =>
         att'.rate = update_video_bitrate(best_att.rate, best_size,
                                          info.a_rate)]_vars

\* C10: attempt 1 of every mode of limit_size uses exactly the seed bitrate;
\* every attempt i >= 2 derives its bitrate from the bitrate and the
\* measured size of attempt i-1 of the same mode.
C10_ShrinkBitrates ==
    [][(n_attempts' = n_attempts + 1 /\ att'.phase = "SHRINK") =>
         IF att'.i = 1
         THEN att'.rate = SeedBitrate
         ELSE /\ att.phase = "SHRINK"
              /\ att.mode = att'.mode
              /\ att.i + 1 = att'.i
              /\ att'.rate = update_video_bitrate(att.rate, curr_size,
                                                  info.a_rate)]_vars

\* C10 witness: a second attempt of a later mode, after the earlier mode
\* had moved the bitrate away from the seed
C10_Witness ==
    /\ att.phase = "SHRINK"
    /\ att.mode > min_mode
    /\ att.i = 2
    /\ att.rate # SeedBitrate
    /\ info.a_rate > 0

\* a bitrate was just computed from the bitrate att.rate and the size
\* curr_size of the attempt before: by update_video_bitrate / by the
\* else branch of utils video_bitrate
Updated == pc = "rate_set" /\ i > 1
UtilsUpdated == pc = "u_rate_set" /\ i > 1

\* int(9/10 of the bitrate of the attempt before)
NineTenths == (att.rate * 9) \div 10

\* last bitrate * (max_size / last size), truncated
Proportional == (att.rate * ratio_num(curr_size)) \div ratio_den(curr_size)

\* C11: whenever the bitrate returned by update_video_bitrate (or by utils
\* video_bitrate) is lower than the previous bitrate it is at most
\* int(previous * min_bitrate_ratio); a proportional update strictly between
\* int(previous * min_bitrate_ratio) and the previous bitrate is replaced by
\* int(previous * min_bitrate_ratio).
C11_MinimumDecrease ==
    /\ (Updated \/ UtilsUpdated) =>
          (v_rate < att.rate => v_rate <= NineTenths)
    /\ Updated =>
          LET new == NewRate(att.rate, curr_size, info.a_rate)
          IN  (NineTenths < new /\ new < att.rate) => v_rate = NineTenths
    /\ UtilsUpdated =>
          ((NineTenths < Proportional /\ Proportional < att.rate)
             => v_rate = NineTenths)

\* C11 witness: an update that would have lowered 100 Kbps by less than a
\* tenth, with audio, was replaced by 90 Kbps
C11_Witness ==
    /\ Updated
    /\ info.a_rate > 0
    /\ att.rate = 100
    /\ curr_size > opts.max_size
    /\ NewRate(att.rate, curr_size, info.a_rate) > 90
    /\ v_rate = 90

\* C12 as stated: each returned bitrate is at least min_bitrate_ratio times
\* the previous bitrate, along any sequence of calls whose max_size/size
\* ratios decrease.
C12_AsStated ==
    ((Updated \/ UtilsUpdated) /\ (i > 2 => curr_size > last_size))
       => 10 * v_rate >= 9 * att.rate

\* C12: the guard bounds a decrease from below, not from above: when the
\* last size exceeds max_size the returned bitrate is at most
\* int(min_bitrate_ratio * previous bitrate) (or the fallback bitrate 1), and
\* it may fall below min_bitrate_ratio * previous bitrate by any amount
\* down to the fallback bitrate.
C12_DecreaseAtLeast ==
    ((Updated \/ UtilsUpdated) /\ curr_size > opts.max_size) =>
       /\ v_rate <= (IF NineTenths < 1 THEN 1 ELSE NineTenths)
       /\ v_rate >= 1

\* C12 witness: a bitrate was cut by more than a tenth, and not to the
\* fallback bitrate
C12_Witness ==
    /\ Updated
    /\ curr_size > opts.max_size
    /\ 10 * v_rate < 9 * att.rate
    /\ v_rate > 1
    /\ i = 3
    /\ curr_size > last_size

\* the worked example's run: 3 MiB limit, 10 s, no audio
Example ==
    /\ opts.max_size = 3145728
    /\ info.out_dur = 10000
    /\ info.a_rate = 0
    /\ pc = "rate_set"

\* C13 as stated: attempt 1 runs at 2516 Kbps; after attempt 1 measured
\* 4,194,304 bytes attempt 2 runs at 2264 Kbps.
C13_AsStated ==
    Example =>
       /\ (i = 1 => v_rate = 2516)
       /\ ((i = 2 /\ att.rate = 2516 /\ curr_size = 4194304)
              => v_rate = 2264)

\* C13: with max_size = 3,145,728 bytes, 10 s output duration and no audio,
\* attempt 1 runs at 2516 Kbps; after attempt 1 measured 4,194,304 bytes
\* attempt 2 runs at 1887 Kbps (the proportional update: it is below
\* int(2516 * 0.9) = 2264, so the guard leaves it alone).
C13_WorkedExample ==
    Example =>
       /\ (i = 1 => v_rate = 2516)
       /\ ((i = 2 /\ att.rate = 2516 /\ curr_size = 4194304)
              => v_rate = 1887)

\* C13 witness: attempt 2 of the example after attempt 1 ran at the seed
\* bitrate and measured 4 MiB
C13_Witness ==
    /\ Example
    /\ i = 2
    /\ att.i = 1
    /\ att.rate = 2516
    /\ n_attempts = 1
    /\ curr_size = 4194304
    /\ v_rate = 1887

\* C14 as stated: the candidate bitrate before the guard and the floor is
\* last bitrate * (max_size / last size) truncated, with and without audio.
C14_AsStated ==
    Updated => NewRate(att.rate, curr_size, info.a_rate) = Proportional

\* C14: the candidate bitrate of update_video_bitrate is last bitrate *
\* (max_size / last size) truncated only without audio (a_rate = 0); with
\* audio it is the total bitrate (video + audio) that is scaled by
\* max_size / last size, so the candidate plus a_rate is within 2 Kbps of
\* (last bitrate + a_rate) * (max_size / last size).  The returned bitrate
\* is the candidate unless the guard or the floor replaces it.  utils
\* video_bitrate scales the video bitrate alone.
C14_Candidate ==
    /\ Updated =>
          LET new == NewRate(att.rate, curr_size, info.a_rate)
              n   == ratio_num(curr_size)
              d   == ratio_den(curr_size)
          IN  /\ Abs((new + info.a_rate) * d - (att.rate + info.a_rate) * n)
                    < 2 * d
              /\ (info.a_rate = 0 => new = Proportional)
              /\ (v_rate # new => v_rate \in {NineTenths, 1})
    /\ UtilsUpdated =>
          (v_rate # Proportional => v_rate \in {NineTenths, 1})

\* C14 witness: with audio, an attempt ran at a candidate that is not the
\* proportional update of the video bitrate
C14_Witness ==
    /\ Updated
    /\ info.a_rate > 0
    /\ v_rate = NewRate(att.rate, curr_size, info.a_rate)
    /\ v_rate < Proportional - 5
    /\ v_rate > 1

\* C15: the video bitrate of every encode attempt is at least 1 Kbps: a
\* value <= 0 computed by init_video_bitrate or update_video_bitrate (<= 1
\* in utils video_bitrate) is replaced by the fallback bitrate 1.
C15_AtLeastFallback ==
    /\ v_rate >= 1
    /\ att.rate >= 1
    /\ (Updated /\ NewRate(att.rate, curr_size, info.a_rate) <= 0)
          => v_rate = 1
    /\ (pc = "rate_set" /\ i = 1
          /\ opts.max_size * 8 <= info.a_rate * info.out_dur) => v_rate = 1
    /\ (UtilsUpdated /\ Proportional <= 1 /\ NineTenths <= 1) => v_rate = 1

\* C15 witness: the update of a bitrate above 1 Kbps came out negative and
\* the fallback bitrate was set instead
C15_Witness ==
    /\ Updated
    /\ att.rate > 1
    /\ info.a_rate > 0
    /\ NewRate(att.rate, curr_size, info.a_rate) < 0
    /\ v_rate = 1

\* the current input is being processed (process was entered, reset has not
\* run yet)
InProcess ==
    pc \in {"limit_size", "after_limit", "raise_size", "after_raise",
            "returned", "crashed"}

\* C16: when the encoder is really run, from the first accepted attempt of
\* an input on the file at the output path is the attempt whose size is
\* best_size; the output path is written only by the rename of the temp
\* file at the moment update_size accepts an attempt, and a rejected attempt
\* leaves the output file alone.
C16_OutputIsBest ==
    /\ []((~opts.debug /\ InProcess /\ best_att # NoAttempt) =>
            /\ output # NoFile
            /\ output.size = best_size)
    /\ [][/\ (output' # output /\ file' = file) =>
                /\ Measured
                /\ IsBest(best_size, curr_size')
                /\ temp' = NoFile
                /\ output' = [att |-> n_attempts', size |-> curr_size']
                /\ best_att' = att'
          /\ (Measured /\ ~IsBest(best_size, curr_size')) =>
                /\ output' = output
                /\ best_att' = best_att]_vars

\* C16 witness: the output file is the second attempt, and a third attempt,
\* turned down, is still at the temp path
C16_Witness ==
    /\ ~opts.debug
    /\ InProcess
    /\ n_attempts = 3
    /\ output.att = 2
    /\ output.size = best_size
    /\ temp.att = 3
    /\ temp.size # best_size

\* update_filters / the two utils stages just ran for the bitrate v_rate
Planned == pc = "filters_set"
UtilsPlanned == pc = "u_filters_set"

\* the smaller of two numbers
Least(x, y) == IF x < y THEN x ELSE y

\* C17: no upscaling: update_filters never yields out_height > in_height or
\* out_fps > in_fps, and the utils functions downscale_height and
\* drop_framerate never return more than the input's height and frame rate.
C17_NoUpscaling ==
    /\ info.out_height <= info.in_height
    /\ info.out_fps <= info.in_fps

\* C17 witness: for a 25 fps input the frame rate list offered 60 fps and
\* the threshold 240 lies above the input's height; both were cut back to
\* the input's values
C17_Witness ==
    /\ Planned
    /\ ~opts.user_fps
    /\ ~opts.user_scale
    /\ info.in_fps = 25
    /\ FirstFps(info, v_rate) = 60
    /\ info.out_fps = 25
    /\ info.in_height < opts.min_height
    /\ opts.max_height # None
    /\ info.out_height = info.in_height

C19_BelowMinUntouched ==
    (Planned \/ UtilsPlanned) =>
       /\ (info.in_height < opts.min_height =>
             info.out_height = info.in_height)
       /\ (info.in_fps < opts.min_fps => info.out_fps = info.in_fps)

\* C19 witness: at 1 Kbps an input of 200 lines at 20 fps, both below the
\* min. thresholds and with max. thresholds configured, was left as it is
C19_Witness ==
    /\ Planned
    /\ ~opts.user_scale
    /\ ~opts.user_fps
    /\ v_rate = 1
    /\ opts.max_height # None
    /\ opts.max_fps # None
    /\ info.in_height < opts.min_height
    /\ info.in_fps < opts.min_fps
    /\ info.out_height = info.in_height
    /\ info.out_fps = info.in_fps
    /\ i > 1

\* heights in_height, in_height-10, ... > 0 whose bpp at the frame rate
\* out_fps reaches bpp_thresh
GoodHeights ==
    { h \in 1..info.in_height :
        /\ (info.in_height - h) % 10 = 0
        /\ v_rate * 1000 * AspectDen(info) * 40
              >= 3 * info.out_fps * AspectNum(info) * h * h }

\* the largest element of a non-empty set of numbers
Largest(S) == CHOOSE x \in S : \A y \in S : y <= x

\* C20: when the scale is not user-forced, the height chosen by
\* update_filters is the largest h in {in_height, in_height-10, ...}, h > 0,
\* with v_rate*1000/(out_fps*ratio*h^2) >= bpp_thresh, or min_height if
\* there is none, then raised to min_height, cut to max_height (if set) and
\* cut to in_height.
C20_LargestHeight ==
    (Planned /\ ~opts.user_scale) =>
       LET found  == IF GoodHeights = {} THEN opts.min_height
                     ELSE Largest(GoodHeights)
           raised == IF found < opts.min_height THEN opts.min_height
                     ELSE found
           cut    == IF opts.max_height # None /\ raised > opts.max_height
                     THEN opts.max_height ELSE raised
       IN  info.out_height = Least(cut, info.in_height)

\* C20 witness: of several heights that reach the threshold the largest one
\* was chosen, strictly between min_height and the input's height
C20_Witness ==
    /\ Planned
    /\ ~opts.user_scale
    /\ opts.max_height = None
    /\ info.out_height < info.in_height
    /\ info.out_height > opts.min_height
    /\ info.out_height \in GoodHeights
    /\ info.out_height - 10 \in GoodHeights
    /\ info.out_height + 10 \notin GoodHeights

\* ---------------------------------------------------------------- C21
\* an encode attempt has been made for the current input; info and filter
\* are the ones its command was assembled from
Attempted == info.valid /\ n_attempts > 0

\* C21: in every attempt the -vf option handed to the encoder has a scale
\* filter iff the attempt's out_height differs from in_height and an fps
\* filter iff its out_fps differs from in_fps; with both equal to the
\* input's values there is no -vf option, whatever earlier attempts used
C21_FilterOfThisAttempt ==
    Attempted =>
        /\ (filter.scale # 0) <=> (info.out_height # info.in_height)
        /\ (filter.fps # 0) <=> (info.out_fps # info.in_fps)
        /\ filter.scale # 0 => filter.scale = info.out_height
        /\ filter.fps # 0 => filter.fps = info.out_fps

\* ---------------------------------------------------------------- C22
\* a step that makes and measures one encode attempt of limit_size
ShrinkAttempt == Measured /\ att'.phase = "SHRINK"

\* |curr_size - last_size| / last_size < skip_limit after the step
SmallChange ==
    /\ last_size' # 0
    /\ Abs(curr_size' - last_size') * skip_limit_den < last_size'

\* the step leaves the for loop of its mode by the break
Aborted ==
    /\ mode' = mode + 1
    /\ IF mode + 1 <= max_mode
       THEN pc' = "limit_size" /\ i' = 1
       ELSE pc' = "after_limit"

\* C22: in limit_size, attempt i of a mode abandons the mode's remaining
\* iterations by the skip-threshold abort iff i >= 2 and
\* |curr_size - last_size| / last_size < skip_limit, last_size being the
\* size of attempt i-1 of the same mode; attempt 1 never aborts; after an
\* abort with best_size > max_size attempt 1 of the next mode follows.
C22_SkipAbort ==
    [][ShrinkAttempt =>
          /\ att'.i >= 2 =>
                /\ att.phase = "SHRINK"
                /\ att.mode = att'.mode
                /\ att.i = att'.i - 1
                /\ last_size' = curr_size
          /\ IF att'.i >= 2 /\ SmallChange
             THEN Aborted
             ELSE \/ best_size' <= opts.max_size /\ pc' = "after_limit"
                                                 /\ mode' = mode
                  \/ att'.i < opts.iters /\ pc' = "limit_size"
                                          /\ mode' = mode /\ i' = att'.i + 1
                  \/ att'.i = opts.iters /\ best_size' > opts.max_size
                                          /\ Aborted
          /\ att'.i = 1 /\ opts.iters > 1 /\ best_size' > opts.max_size
                => pc' = "limit_size" /\ mode' = mode /\ i' = 2
    ]_vars

\* C22 witness: attempt 2 of the first mode changed the size by less than
\* skip_limit and left best_size > max_size; attempt 1 of the next mode is
\* about to be made
C22_Witness ==
    /\ pc = "limit_size"
    /\ i = 1
    /\ att.phase = "SHRINK"
    /\ att.i = 2
    /\ opts.iters > 2
    /\ mode = att.mode + 1
    /\ best_size > opts.max_size
    /\ Abs(curr_size - last_size) * skip_limit_den < last_size

\* ---------------------------------------------------------------- C23
\* the step evaluates skip_mode: raise_size after every attempt, limit_size
\* after the attempts that SkipTested lets through
SkipEvaluated ==
    /\ Measured
    /\ att'.phase = "GROW" \/ SkipTested(att'.i)

\* C23: skip_mode never divides by zero: it is never evaluated while
\* last_size = 0, and the first attempt of an input cannot abort early
\* (it fits, or goes on to attempt 2, or was the mode's only iteration).
C23_NoZeroDivisor ==
    [][/\ SkipEvaluated => last_size' # 0
       /\ Measured /\ n_attempts = 0 =>
             /\ att'.phase = "SHRINK" /\ att'.i = 1
             /\ last_size' = 0
             /\ ~SkipEvaluated
             /\ \/ best_size' <= opts.max_size /\ pc' = "after_limit"
                \/ opts.iters > 1 /\ pc' = "limit_size" /\ i' = 2
                                  /\ mode' = mode
                \/ opts.iters = 1 /\ best_size' > opts.max_size
    ]_vars

\* C23 witness: the first GROW attempt, which has no "i > 1" test, came
\* right after a first attempt of limit_size and evaluated skip_mode on
\* that attempt's size
C23_Witness ==
    /\ att.phase = "GROW"
    /\ att.i = 1
    /\ n_attempts = 2
    /\ pc = "after_raise"
    /\ last_size > 0
    /\ Abs(curr_size - last_size) * skip_limit_den < last_size

\* ---------------------------------------------------------------- C24
\* a step that makes and measures one encode attempt of raise_size
GrowAttempt == Measured /\ att'.phase = "GROW"

\* C24: raise_size makes its next attempt unless best_size lies in
\* [min_size, max_size], the skip-threshold check fired or iters attempts
\* were made, and returns otherwise; no GROW attempt is started while
\* best_size is in [min_size, max_size].
C24_GrowEnds ==
    /\ [](pc = "raise_size" => best_size < min_size)
    /\ [][GrowAttempt =>
            IF \/ (min_size <= best_size' /\ best_size' <= opts.max_size)
               \/ SmallChange
               \/ att'.i = opts.iters
            THEN pc' = "after_raise"
            ELSE pc' = "raise_size" /\ i' = att'.i + 1
                                   /\ att'.i = i
       ]_vars

\* C24 witness: GROW stopped before its last iteration because the attempt
\* brought best_size to exactly min_size, with a clear change of the size
C24_Witness ==
    /\ pc = "after_raise"
    /\ att.phase = "GROW"
    /\ att.i < opts.iters
    /\ best_size = min_size
    /\ best_size = curr_size
    /\ best_size <= opts.max_size
    /\ Abs(curr_size - last_size) * skip_limit_den >= last_size

\* ---------------------------------------------------------------- C25
\* C25: an input whose encoder invocation fails does not abort the batch:
\* the program is never ended by the exception of a failed encode while
\* later files of the batch are still waiting.
C25_FailedEncodeKeepsBatch ==
    ~(pc = "crashed" /\ error = "FileNotFoundError" /\ file < NumFiles)

\* ---------------------------------------------------------------- C26
\* a step in which call_ffmpeg ran the encoder and the encoder failed: the
\* attempt is counted, and neither the temp path nor the output path holds
\* a file written by this attempt
FailedEncode ==
    /\ ~opts.debug
    /\ n_attempts' = n_attempts + 1
    /\ temp'.att # n_attempts + 1
    /\ output'.att # n_attempts + 1

\* C26: a failed encoder invocation leaves best_size and the output file
\* unchanged and raises no error: the controller goes on.
C26_FailedEncodeIsNoInformation ==
    [][FailedEncode =>
          /\ best_size' = best_size
          /\ output' = output
          /\ error' = "none"
          /\ pc' # "crashed"
    ]_vars

\* ---------------------------------------------------------------- C27
\* the current input is being processed: main is inside its try block
Processing ==
    pc \in {"limit_size", "after_limit", "raise_size", "after_raise",
            "returned"}

\* C27: an interrupt that arrives while an input is processed removes the
\* temp file (clean), leaves the output file as it is, ends the program
\* with status INT (5), and no further input is processed.
C27_Interrupt ==
    /\ [][Processing /\ pc' = "interrupted" =>
            /\ temp' = NoFile
            /\ output' = output
            /\ file' = file
            /\ exit_status' = 5
       ]_vars
    /\ [][pc # "interrupted"]_vars

\* C27 witness: the program was interrupted during the first input of the
\* batch, after an attempt had been accepted and a later one had not: the
\* output file is the accepted one and the temp file is gone
C27_Witness ==
    /\ pc = "interrupted"
    /\ exit_status = 5
    /\ file = 1
    /\ file < NumFiles
    /\ n_attempts >= 2
    /\ output # NoFile
    /\ output.att < n_attempts
    /\ output.size = best_size
    /\ temp = NoFile

\* ---------------------------------------------------------------- C28
\* restrictor.process(video) has been called and no attempt is made yet
ProcessStarts == pc = "limit_size" /\ n_attempts = 0

\* C28: at the start of process, for every input of the batch and whatever
\* happened to the inputs before it, curr_size = last_size = best_size = 0
\* and mode = min_mode.
C28_ResetPerInput ==
    ProcessStarts =>
        /\ curr_size = 0
        /\ last_size = 0
        /\ best_size = 0
        /\ mode = IF opts.no_qmax THEN 2 ELSE 1

\* C28 witness: process starts for the second input after the first one
\* ended still too large in the last mode
C28_Witness ==
    /\ ProcessStarts
    /\ file = 2
    /\ size_fail
    /\ ~opts.no_cbr
    /\ i = 1

\* ---------------------------------------------------------------- C29
\* the current input ended still too large or still too small
EndedUnfit == outcome \in {"too_large", "too_small"}

Fitting == {sizes[k] : k \in 1..Len(sizes)} \cap 0..opts.max_size

Smallest(S) == CHOOSE x \in S : \A y \in S : x <= y

\* the largest fitting size of the sequence, or its smallest size if none
\* fits
FinalBest ==
    IF Fitting # {} THEN Largest(Fitting)
    ELSE Smallest({sizes[k] : k \in 1..Len(sizes)})

\* C30: for a sequence of positive sizes applied to update_size from the
\* reset state, applying the sequence a second time leaves best_size
\* unchanged at every step, and the final best_size is a function of the
\* sequence alone (the same after one pass, after two, and in every run).
C30_Idempotent ==
    /\ [][pc = "update_size" /\ n_attempts >= Len(sizes) =>
            best_size' = best_size]_vars
    /\ [](pc = "update_size" /\ n_attempts >= Len(sizes) =>
            best_size = FinalBest)

\* C30 witness: a sequence whose first size is too large, whose second
\* fits and whose third fits better has been applied twice
C30_Witness ==
    /\ pc = "update_size"
    /\ Len(sizes) = 3
    /\ n_attempts = 2 * Len(sizes)
    /\ sizes[1] > opts.max_size
    /\ sizes[2] < sizes[3]
    /\ sizes[3] <= opts.max_size
    /\ best_size = sizes[3]
    /\ curr_size = sizes[3]

\* C31: audio allocation.  The per-channel bitrate of choose_audio_bitrate
\* does not fall as the size-pressure factor grows and lies between
\* min_audio and max_audio (when given), and with audio enabled
\* audio_properties returns as a_rate that per-channel bitrate times the
\* channels of the encoded streams (2 per stream with force_stereo, the
\* first stream only with basic_format).
FactorChoices ==
    {<< n, 2 >> : n \in {0, 1, 2, 3, 4, 5, 6, 7, 8, 9, 11, 12, 13, 15, 16,
                         17, 55, 56, 57, 143, 144, 145, 239, 240, 241}}
AudioMonotone ==
    \A f, g \in FactorChoices :
        f[1] <= g[1] =>
            choose_audio_bitrate(f[1], f[2]) <= choose_audio_bitrate(g[1], g[2])
AudioInRange ==
    \A f \in FactorChoices :
        /\ choose_audio_bitrate(f[1], f[2]) >= opts.min_audio
        /\ opts.max_audio # None =>
               choose_audio_bitrate(f[1], f[2]) <= opts.max_audio
EligibleChannels ==
    IF info.a_streams = << >> THEN 0
    ELSE IF opts.basic_format
    THEN (IF opts.force_stereo THEN 2 ELSE info.a_streams[1])
    ELSE IF opts.force_stereo THEN 2 * Len(info.a_streams)
    ELSE SeqSum(info.a_streams)
AudioCalled == pc \in {"audio_set", "crashed"} /\ opts.audio
C31_AudioAllocation ==
    AudioCalled =>
        /\ AudioMonotone
        /\ AudioInRange
        /\ pc = "audio_set"
        /\ \E f \in {audio_factor(info.out_dur, EligibleChannels)} :
               /\ f[2] > 0
               /\ info.a_rate =
                      choose_audio_bitrate(f[1], f[2]) * EligibleChannels
\* the same for the inputs that have an audio stream
C31_WithAudioStream ==
    (AudioCalled /\ info.a_streams # << >>) => C31_AudioAllocation

\* C32: user-forced dimensions are pinned.  With user_scale the output
\* height is the input height in every attempt, whatever the bitrate, and
\* with user_fps the output frame rate is the input frame rate;
\* update_filters and the utils filter functions change only the dimension
\* that is not forced.
C32_ForcedPinned ==
    /\ opts.user_scale => info.out_height = info.in_height
    /\ opts.user_fps => info.out_fps = info.in_fps

\* C32 witness: update_filters has run with a forced height at a bitrate
\* whose bpp asks for a lower height, and has lowered the frame rate only
C32_Witness ==
    /\ pc = "filters_set"
    /\ opts.user_scale
    /\ ~opts.user_fps
    /\ i > 1
    /\ info.out_fps < info.in_fps
    /\ info.out_height = info.in_height
    /\ Enforce(FirstHeight(info, v_rate, info.out_fps), opts.min_height,
               opts.max_height, info.in_height) < info.in_height

\* an encode attempt of enhancer was made in this step and its size read
Enhanced ==
    /\ att'.phase = "ENHANCE"
    /\ n_attempts' = n_attempts + 1
    /\ pc' # "crashed"

C34_OutputNeverShrinks ==
    [][Enhanced =>
         /\ output' # output =>
               /\ output'.size > output.size
               /\ output'.size <= opts.max_size
         /\ output'.size >= output.size]_vars

\* C35: in the utils implementation limiter honours --no-qmax: with the
\* flag no attempt of limiter is encoded in mode 0 (-qmax 50), and the
\* first attempt runs in plain VBR mode.
C35_NoQmaxHonoured ==
    (opts.no_qmax /\ att.phase = "LIMIT") =>
        /\ att.mode # u_qmax
        /\ n_attempts = 1 => att.mode = u_qmax + 1

\* C36: the height search of the utils implementation ends for every
\* input: downscale_height returns after finitely many steps, without a
\* division by zero, for every bitrate >= 1, frame rate, aspect ratio and
\* input height, and returns the min. height when no height reaches the
\* bpp threshold.
C36_HeightSearchEnds ==
    /\ pc \notin {"crashed", "u_looping"}
    /\ \A stage \in 1..2 :
          (/\ pc = "u_filters"
           /\ ~opts.user_scale
           /\ info.in_height >= opts.min_height * stage
           /\ \A h \in 1..info.in_height :
                 ~BppAtLeast(AspectNum(info), AspectDen(info), v_rate,
                             info.in_fps, h, bpp_thresh_num, bpp_thresh_den))
          => downscale_height(info, v_rate, info.in_fps, stage)
                = opts.min_height * stage

\* C37: once fitting, always fitting.  Once best_size is non-zero and at
\* most max_size, every later update_size call for the input, of limit_size
\* or of raise_size, leaves it non-zero and at most max_size: a fitting
\* best attempt is never replaced by one larger than max_size.
C37_OnceFitting ==
    [][(Measured /\ best_size # 0 /\ best_size <= opts.max_size) =>
          /\ best_size' # 0
          /\ best_size' <= opts.max_size
          /\ curr_size' > opts.max_size => best_size' = best_size]_vars

\* C37 witness: raise_size measured an attempt above max_size while the
\* best attempt, of limit_size, fitted; the best attempt stayed
C37_Witness ==
    /\ att.phase = "GROW"
    /\ curr_size > opts.max_size
    /\ best_att.phase = "SHRINK"
    /\ best_size # 0
    /\ best_size <= opts.max_size
    /\ best_size = shrink_end.best

\* the sizes applied to update_size so far, in the first pass over sizes
Applied == {sizes[k] : k \in 1..n_attempts}

\* C38: final best characterisation.  After update_size has been applied
\* to a sequence of positive sizes from the reset state, best_size is the
\* largest size of the sequence that is at most max_size if there is one,
\* and the smallest size of the sequence otherwise.
C38_FinalBest ==
    (pc = "update_size" /\ n_attempts \in 1..Len(sizes)) =>
        /\ best_size \in Applied
        /\ IF \E x \in Applied : x <= opts.max_size
           THEN /\ best_size <= opts.max_size
                /\ \A x \in Applied : x <= opts.max_size => x <= best_size
           ELSE \A x \in Applied : best_size <= x

\* C38 witness: no size of the sequence fits, and the smallest one is
\* neither the first nor the last
C38_Witness ==
    /\ pc = "update_size"
    /\ Len(sizes) = 3
    /\ n_attempts = Len(sizes)
    /\ sizes[2] > opts.max_size
    /\ sizes[1] > sizes[2]
    /\ sizes[3] > sizes[2]
    /\ best_size = sizes[2]

\* C39: the bitrate moves in the direction of the size error.  In
\* update_video_bitrate, when the size of the attempt before is above
\* max_size and its bitrate above 1 Kbps the new bitrate is strictly lower
\* than that bitrate; when the size is at most max_size the new bitrate is
\* at least that bitrate.
C39_Direction ==
    Updated =>
       /\ (curr_size > opts.max_size /\ att.rate > 1) => v_rate < att.rate
       /\ curr_size <= opts.max_size => v_rate >= att.rate

\* C39 witness: an attempt below max_size, with audio, raised the bitrate by
\* more than the size ratio alone
C39_Witness ==
    /\ Updated
    /\ curr_size < opts.max_size
    /\ info.a_rate > 0
    /\ att.rate > 1
    /\ v_rate > Proportional
    /\ v_rate > att.rate

====
